---- MODULE Spec2Model ----
(***************************************************************************)
(* HopSkipJump decision-based attack, src/attacks/hopskipjump.py.          *)
(*                                                                         *)
(* The attack object, its configuration (set_params/_check_params) and the *)
(* per-sample search of generate (_perturb, _init_sample, _binary_search,  *)
(* _attack, _compute_delta, _compute_update, _adversarial_satisfactory,    *)
(* _interpolate) as a state machine.                                       *)
(*                                                                         *)
(* Numbers.  numpy floats are modelled in fixed point: a sample value v    *)
(* stands for the real v/Unit, an L2 interpolation coefficient a for       *)
(* a/Frac, an L-inf coefficient a for a/(Unit*Frac), theta t for           *)
(* t/ThetaDen, a direction component u for u/UpdDen.  Every product is     *)
(* rounded toward zero to the grid, as a float operation rounds to its     *)
(* own grid.  NaN (0/0 of numpy) is a value of its own.  None is <<>>.     *)
(***************************************************************************)
EXTENDS Integers, Sequences, FiniteSets, TLC

\* ------------------------------------------------------------- bounds
MaxIter == 1
MaxEval == 2
MaxInitSize == 2
MaxBatch == 2
MaxCalls == 2
MaxKwargs == 1

\* ------------------------------------------------- fixed-point scales
Unit == 10^4
Frac == 2^10
ThetaDen == 10^5
UpdDen == 10^3
NaN == 0 - 2^30

None == << >>

\* --------------------------------------------------------- arithmetic
Abs(a) == IF a < 0 THEN 0 - a ELSE a
Sign(a) == IF a < 0 THEN 0 - 1 ELSE IF a > 0 THEN 1 ELSE 0
Min2(a, b) == IF a <= b THEN a ELSE b
Max2(a, b) == IF a >= b THEN a ELSE b
\* a/b rounded toward zero (b > 0)
Quot(a, b) == Sign(a) * (Abs(a) \div b)

RECURSIVE ISqrtIter(_, _, _)
ISqrtIter(n, lo, hi) ==
    IF hi - lo <= 1 THEN lo
    ELSE LET mid == (lo + hi) \div 2
         IN  IF mid * mid <= n THEN ISqrtIter(n, mid, hi) ELSE ISqrtIter(n, lo, mid)
\* floor(sqrt(n)), 0 <= n < 46340^2
ISqrt(n) == ISqrtIter(n, 0, 46340)

RECURSIVE Prod(_)
Prod(s) == IF s = << >> THEN 1 ELSE Head(s) * Prod(Tail(s))

RECURSIVE SumSeq(_)
SumSeq(s) == IF s = << >> THEN 0 ELSE Head(s) + SumSeq(Tail(s))

\* ------------------------------------------------------------ samples
\* self._input_shape, and np.prod of it
input_shape == << 2 >>
Numel == Prod(input_shape)
Idx == 1 .. Numel

NaNSample == [k \in Idx |-> NaN]
IsNaN(s) == s[1] = NaN

SeqMin(s) == CHOOSE m \in {s[k] : k \in DOMAIN s} : \A k \in DOMAIN s : m <= s[k]
SeqMax(s) == CHOOSE m \in {s[k] : k \in DOMAIN s} : \A k \in DOMAIN s : m >= s[k]

\* np.min(x), np.max(x) over the whole batch
BatchMin(x) == SeqMin([i \in DOMAIN x |-> SeqMin(x[i])])
BatchMax(x) == SeqMax([i \in DOMAIN x |-> SeqMax(x[i])])

\* np.clip(s, lo, hi); NaN stays NaN
Clip(s, lo, hi) ==
    IF IsNaN(s) THEN s ELSE [k \in Idx |-> Max2(lo, Min2(s[k], hi))]

\* np.linalg.norm(a - b) and np.max(abs(a - b))
L2Dist(a, b) == ISqrt(SumSeq([k \in Idx |-> (a[k] - b[k]) * (a[k] - b[k])]))
LinfDist(a, b) == SeqMax([k \in Idx |-> Abs(a[k] - b[k])])

\* candidate * mask + original * (1 - mask), mask entries 0 or 1
ApplyMask(cand, orig, mask) ==
    [k \in Idx |-> cand[k] * mask[k] + orig[k] * (1 - mask[k])]

\* ------------------------------------------------------------- oracle
\* The classifier handed to __init__: a pure function from a sample to its
\* output row.  "half" and "band" have two outputs, "const" has one.
Estimators == {"half", "band", "const"}
NumClasses(est) == IF est = "const" THEN 1 ELSE 2

\* torch.argmax(self.estimator(input), dim=1) for one sample
Predict(est, s) ==
    IF IsNaN(s) THEN 0
    ELSE CASE est = "half" -> IF s[1] >= Unit \div 2 THEN 1 ELSE 0
           [] est = "band" -> IF \/ s[1] >= 6 * (Unit \div 10)
                                 \/ /\ s[1] >= 3 * (Unit \div 10)
                                    /\ s[1] < 4 * (Unit \div 10)
                              THEN 1 ELSE 0
           [] OTHER -> 0

\* The raw output row of a one-output estimator, in Unit fixed point: the
\* row self.estimator(x_adv_init)[ind] that generate keeps as init_pred.
Logit(s) == s[1]

\* bool(init_pred == label) / bool(init_pred != label), init_pred the raw
\* output row: a row of more than one element has no truth value.
RowTruth(est, s, label, wantEqual) ==
    IF NumClasses(est) > 1 THEN "raise"
    ELSE IF (Logit(s) = label * Unit) = wantEqual THEN "true" ELSE "false"

\* ---------------------------------------------------------- validation
ValidNorms == {"2", "np.inf", "inf"}
IsBool(v) == v \in {"True", "False"}

\* a validation that lacks the init_eval > max_eval test
CheckParamsNoOrder(n, mi, me, ie, isz, vb) ==
    IF n \notin ValidNorms THEN "norm"
    ELSE IF mi < 0 THEN "max_iter"
    ELSE IF me <= 0 THEN "max_eval"
    ELSE IF ie <= 0 THEN "init_eval"
    ELSE IF isz <= 0 THEN "init_size"
    ELSE IF ~IsBool(vb) THEN "verbose"
    ELSE ""

\* _check_params: the name of the first check that raises ValueError, "" if
\* none.  The counts are Python ints, so the isinstance tests pass.
CheckParams(n, mi, me, ie, isz, vb) ==
    IF n \notin ValidNorms THEN "norm"
    ELSE IF mi < 0 THEN "max_iter"
    ELSE IF me <= 0 THEN "max_eval"
    ELSE IF ie <= 0 THEN "init_eval"
    ELSE IF ie > me THEN "order"
    ELSE IF isz <= 0 THEN "init_size"
    ELSE IF ~IsBool(vb) THEN "verbose"
    ELSE ""

\* __init__: 0.01/sqrt(prod(shape)) if norm == 2 else 0.01/prod(shape),
\* in ThetaDen fixed point
ThetaOf(n) ==
    IF n = "2" THEN ISqrt(((ThetaDen \div 100) * (ThetaDen \div 100)) \div Numel)
    ELSE (ThetaDen \div 100) \div Numel

\* ------------------------------------------------------- the predicate
\* _adversarial_satisfactory for one sample
AdversarialSatisfactory(est, tg, sample, tgt, cmin, cmax) ==
    LET p == Predict(est, Clip(sample, cmin, cmax))
    IN  IF tg THEN p = tgt ELSE p # tgt

\* -------------------------------------------------------- interpolation
\* _interpolate; alpha in 1/Frac (norm 2) or in 1/(Unit*Frac) (otherwise)
Interpolate(cur, orig, alpha, n) ==
    IF IsNaN(cur) \/ IsNaN(orig) \/ alpha = NaN THEN NaNSample
    ELSE IF n = "2"
         THEN [k \in Idx |-> Quot((Frac - alpha) * orig[k] + alpha * cur[k], Frac)]
         ELSE [k \in Idx |->
                 Quot(Min2(Max2(cur[k] * Frac, orig[k] * Frac - alpha),
                           orig[k] * Frac + alpha), Frac)]

\* _binary_search, lines 423-437: <<upper_bound, lower_bound, threshold>>.
\* thr is the caller's threshold in ThetaDen fixed point, None if not given.
BSBounds(n, cur, orig, thr, th) ==
    IF n = "2"
    THEN << Frac, 0, Quot((IF thr = None THEN th ELSE thr[1]) * Frac, ThetaDen) >>
    ELSE IF IsNaN(cur) THEN << NaN, 0, NaN >>
    ELSE LET d == LinfDist(orig, cur)
             m == Min2(d, Unit) * th
         IN  << d * Frac, 0,
                IF thr = None
                THEN (m \div ThetaDen) * Frac + ((m % ThetaDen) * Frac) \div ThetaDen
                ELSE Quot(thr[1] * Unit * Frac, ThetaDen) >>

\* the loop test (upper_bound - lower_bound) > threshold; false on NaN
BSContinue(ub, lb, thr) == ub # NaN /\ ub - lb > thr

\* alpha = (upper_bound + lower_bound) / 2.0
BSAlpha(ub, lb) == (ub + lb) \div 2

\* a bound update that moves the other bound
BSUpdateSwapped(ub, lb, alpha, satisfied) ==
    << IF satisfied THEN ub ELSE alpha, IF ~satisfied THEN lb ELSE alpha >>

\* lines 457-458: the new <<upper_bound, lower_bound>>
BSUpdate(ub, lb, alpha, satisfied) ==
    << IF satisfied THEN alpha ELSE ub, IF ~satisfied THEN alpha ELSE lb >>

\* ------------------------------------------------------------- delta
\* _compute_delta, in sample fixed point
ComputeDelta(ci, n, th, cur, orig, cmin, cmax) ==
    IF ci = 0 THEN Quot(cmax - cmin, 10)
    ELSE IF IsNaN(cur) THEN NaN
    ELSE IF n = "2"
         THEN Quot(Quot(ISqrt(Numel * 10^6) * th, 10^3) * L2Dist(orig, cur), ThetaDen)
         ELSE Quot(Numel * th * LinfDist(orig, cur), ThetaDen)

\* line 363
NumEval(ie, me, ci) == Min2(ISqrt(ie * ie * (ci + 1)), me)

\* ------------------------------------------------- direction estimator
\* The raw random draws of _compute_update (np.random.randn / uniform):
\* one vector per probe, every component non-zero.
RawNoise == { << 3, 4 >>, << 0 - 4, 3 >>, << 7, 0 - 24 >>, << 0 - 24, 0 - 7 >> }

\* lines 529-535: noise * mask, then noise / sqrt(sum(noise^2)), in UpdDen
UnitNoise(raw, mask) ==
    LET m  == IF mask = None THEN raw ELSE [k \in Idx |-> raw[k] * mask[k]]
        nn == SumSeq([k \in Idx |-> m[k] * m[k]])
    IN  IF nn = 0 THEN NaNSample
        ELSE [k \in Idx |-> Quot(m[k] * UpdDen * UpdDen, ISqrt(nn * UpdDen * UpdDen))]

\* line 536: np.clip(current_sample + delta * rnd_noise, clip_min, clip_max)
EvalSample(cur, delta, unitNoise, cmin, cmax) ==
    IF IsNaN(cur) \/ IsNaN(unitNoise) \/ delta = NaN THEN NaNSample
    ELSE Clip([k \in Idx |-> cur[k] + Quot(delta * unitNoise[k], UpdDen)], cmin, cmax)

\* lines 537-564 from the probes: the update direction in UpdDen fixed point.
\* rnd_noise = (eval - current)/delta, f_val = 2*satisfied - 1; the gradient
\* is taken up to its positive factor 1/(num_eval^2 * delta), which neither
\* grad/norm(grad) nor sign(grad) depends on.
Direction(est, tg, n, cur, evals, delta, tgt, cmin, cmax) ==
    LET m    == Len(evals)
        bad  == IsNaN(cur) \/ delta = NaN \/ delta = 0
                  \/ \E i \in 1 .. m : IsNaN(evals[i])
        f(i) == IF AdversarialSatisfactory(est, tg, evals[i], tgt, cmin, cmax)
                THEN 1 ELSE 0 - 1
        F    == SumSeq([i \in 1 .. m |-> f(i)])
        w(i) == IF F = m THEN 1 ELSE IF F = 0 - m THEN 0 - 1 ELSE m * f(i) - F
        G    == [k \in Idx |-> SumSeq([i \in 1 .. m |-> w(i) * (evals[i][k] - cur[k])])]
        gg   == SumSeq([k \in Idx |-> G[k] * G[k]])
    IN  IF bad THEN NaNSample
        ELSE IF n = "2"
             THEN IF gg = 0 THEN NaNSample
                  ELSE [k \in Idx |-> Quot(G[k] * UpdDen, ISqrt(gg))]
             ELSE [k \in Idx |-> Sign(G[k]) * UpdDen]

\* ----------------------------------------------------------- step size
\* lines 376-381: epsilon = 2.0 * dist / sqrt(curr_iter + 1), sample fixed point
Epsilon0(n, cur, orig, ci) ==
    IF IsNaN(cur) THEN NaN
    ELSE LET dist == IF n = "2" THEN L2Dist(orig, cur) ELSE LinfDist(orig, cur)
         IN  Quot(2 * dist * 100, ISqrt((ci + 1) * 10^4))

\* a step size that is not halved
HalveNot(eps) == eps

\* line 385: epsilon /= 2.0
Halve(eps) == IF eps = NaN THEN NaN ELSE Quot(eps, 2)

\* line 386: current_sample + epsilon * update
Potential(cur, eps, upd) ==
    IF IsNaN(cur) \/ IsNaN(upd) \/ eps = NaN THEN NaNSample
    ELSE [k \in Idx |-> cur[k] + Quot(eps * upd[k], UpdDen)]

\* ---------------------------------------------------------------- state
VARIABLES
    \* the attack object
    constructed, estimator, targeted, norm, max_iter, max_eval, init_eval,
    init_size, curr_iter, batch_size, verbose, theta,
    \* the calls made on it
    calls, raised, returned, pc,
    \* generate
    x, y, mask, x_adv_init, start, clip_min, clip_max, preds, x_adv, ind,
    \* _init_sample
    initial_sample, n_draw, random_img, n_query,
    \* history of the running call, kept for the properties: the samples whose
    \* _init_sample returned None, those _attack was entered for, the number
    \* of draws of the running _init_sample that satisfied the attack, and
    \* the last such draw as it was drawn
    init_none, attack_run, n_hit, hit_img,
    \* _binary_search
    bs_sample, bs_norm, upper_bound, lower_bound, threshold, bs_ret,
    \* _attack
    current_sample, target, it, delta, num_eval, eval_samples, update,
    epsilon, potential_sample

cfgVars == << constructed, estimator, targeted, norm, max_iter, max_eval,
              init_eval, init_size, batch_size, verbose, theta >>
genVars == << x, y, mask, x_adv_init, start, clip_min, clip_max, preds >>
initVars == << initial_sample, n_draw, random_img, n_query, n_hit, hit_img >>
histVars == << init_none, attack_run >>
bsVars == << bs_sample, bs_norm, upper_bound, lower_bound, threshold, bs_ret >>
atkVars == << current_sample, target, it, delta, num_eval, eval_samples,
              update, epsilon, potential_sample >>
vars == << cfgVars, curr_iter, calls, raised, returned, pc, genVars, x_adv, ind,
           initVars, histVars, bsVars, atkVars >>

\* the locals of a call that is not running
NoGen ==
    /\ x = None /\ y = None /\ mask = None /\ x_adv_init = None
    /\ start = 0 /\ clip_min = 0 /\ clip_max = 0 /\ preds = None
    /\ x_adv = None /\ ind = 0
NoInit ==
    /\ initial_sample = None /\ n_draw = 0 /\ random_img = None /\ n_query = 0
    /\ n_hit = 0 /\ hit_img = None /\ init_none = {} /\ attack_run = {}
NoBS ==
    /\ bs_sample = None /\ bs_norm = "" /\ upper_bound = 0 /\ lower_bound = 0
    /\ threshold = 0 /\ bs_ret = ""
NoAtk ==
    /\ current_sample = None /\ target = 0 /\ it = 0 /\ delta = 0
    /\ num_eval = 0 /\ eval_samples = None /\ update = None /\ epsilon = 0
    /\ potential_sample = None

\* ---------------------------------------------------------- construction
\* __init__(classifier, ..., targeted, norm, max_iter, max_eval, init_eval,
\* init_size, verbose): the state it leaves, or the ValueError it raises
Construct(a) ==
    LET chk == CheckParams(a.norm, a.max_iter, a.max_eval, a.init_eval,
                           a.init_size, a.verbose)
    IN  /\ estimator = a.classifier
        /\ targeted = a.targeted
        /\ norm = a.norm
        /\ max_iter = a.max_iter
        /\ max_eval = a.max_eval
        /\ init_eval = a.init_eval
        /\ init_size = a.init_size
        /\ curr_iter = 0
        /\ batch_size = 1
        /\ verbose = a.verbose
        /\ constructed = (chk = "")
        /\ raised = IF chk = "" THEN "" ELSE "ValueError"
        /\ theta = IF chk = "" THEN ThetaOf(a.norm) ELSE 0
        /\ calls = 0 /\ returned = None /\ pc = "idle"
        /\ NoGen /\ NoInit /\ NoBS /\ NoAtk

\* the constructor arguments of the search runs: valid configurations
CtorArgs ==
    [ classifier : Estimators, targeted : BOOLEAN, norm : {"2", "inf"},
      max_iter : 0 .. MaxIter, max_eval : {MaxEval}, init_eval : {1},
      init_size : {MaxInitSize}, verbose : {"False"} ]

\* the constructor arguments of the configuration runs: every combination
AllCtorArgs ==
    [ classifier : {"half"}, targeted : BOOLEAN, norm : ValidNorms \cup {"1"},
      max_iter : (0 - 1) .. MaxIter, max_eval : 0 .. MaxEval,
      init_eval : 0 .. MaxEval, init_size : 0 .. MaxInitSize,
      verbose : {"True", "False", "1"} ]

Init == \E a \in CtorArgs : Construct(a)
InitConfig == \E a \in AllCtorArgs : Construct(a)

\* ------------------------------------------------------------ set_params
attack_params == { "targeted", "norm", "max_iter", "max_eval", "init_eval",
                   "init_size", "curr_iter", "batch_size", "verbose" }

Get(kw, key, old) == IF key \in DOMAIN kw /\ key \in attack_params THEN kw[key] ELSE old

\* a set_params that validates first and stores only a valid configuration
SetParamsChecked(kw) ==
    LET ok == CheckParams(Get(kw, "norm", norm), Get(kw, "max_iter", max_iter),
                          Get(kw, "max_eval", max_eval), Get(kw, "init_eval", init_eval),
                          Get(kw, "init_size", init_size), Get(kw, "verbose", verbose)) = ""
        new(key, old) == IF ok THEN Get(kw, key, old) ELSE old
    IN  /\ pc = "idle" /\ constructed /\ calls < MaxCalls
        /\ calls' = calls + 1
        /\ targeted' = new("targeted", targeted)
        /\ norm' = new("norm", norm)
        /\ max_iter' = new("max_iter", max_iter)
        /\ max_eval' = new("max_eval", max_eval)
        /\ init_eval' = new("init_eval", init_eval)
        /\ init_size' = new("init_size", init_size)
        /\ curr_iter' = new("curr_iter", curr_iter)
        /\ batch_size' = new("batch_size", batch_size)
        /\ verbose' = new("verbose", verbose)
        /\ raised' = IF ok THEN "" ELSE "ValueError"
        /\ returned' = None
        /\ UNCHANGED << histVars, constructed, estimator, theta, pc, genVars, x_adv, ind,
                        initVars, bsVars, atkVars >>

\* set_params(**kwargs): setattr for every recognised key, then _check_params
SetParams(kw) ==
    /\ pc = "idle" /\ constructed /\ calls < MaxCalls
    /\ calls' = calls + 1
    /\ targeted' = Get(kw, "targeted", targeted)
    /\ norm' = Get(kw, "norm", norm)
    /\ max_iter' = Get(kw, "max_iter", max_iter)
    /\ max_eval' = Get(kw, "max_eval", max_eval)
    /\ init_eval' = Get(kw, "init_eval", init_eval)
    /\ init_size' = Get(kw, "init_size", init_size)
    /\ curr_iter' = Get(kw, "curr_iter", curr_iter)
    /\ batch_size' = Get(kw, "batch_size", batch_size)
    /\ verbose' = Get(kw, "verbose", verbose)
    /\ raised' = IF CheckParams(norm', max_iter', max_eval', init_eval',
                                init_size', verbose') = ""
                 THEN "" ELSE "ValueError"
    /\ returned' = None
    /\ UNCHANGED << histVars, constructed, estimator, theta, pc, genVars, x_adv, ind,
                    initVars, bsVars, atkVars >>

Singles(key, values) == { [k \in {key} |-> v] : v \in values }

RECURSIVE KwargsUpTo(_, _)
KwargsUpTo(single, n) ==
    IF n = 0 THEN { << >> }
    ELSE LET less == KwargsUpTo(single, n - 1)
         IN  less \cup { f @@ g : f \in single, g \in less }

\* the keyword arguments of the configuration runs
AllSingles ==
    Singles("targeted", BOOLEAN) \cup Singles("norm", ValidNorms \cup {"1"})
      \cup Singles("max_iter", (0 - 1) .. MaxIter)
      \cup Singles("max_eval", 0 .. MaxEval) \cup Singles("init_eval", 0 .. MaxEval)
      \cup Singles("init_size", 0 .. MaxInitSize) \cup Singles("curr_iter", {0, 3})
      \cup Singles("batch_size", {1, 2}) \cup Singles("verbose", {"True", "False", "1"})
      \cup Singles("theta", {0})
AllKwargs == KwargsUpTo(AllSingles, MaxKwargs)

\* the keyword arguments of the search runs
SearchSingles ==
    Singles("norm", {"2", "inf"}) \cup Singles("max_iter", {0 - 1})
      \cup Singles("init_size", {0, 1}) \cup Singles("curr_iter", {3})
      \cup Singles("batch_size", {2}) \cup Singles("theta", {0})
SearchKwargs == KwargsUpTo(SearchSingles, MaxKwargs) \ { << >> }

\* ------------------------------------------------------ generate: entry
SampleA == << 0, Unit >>
SampleB == << Unit, 0 >>
\* the batches x handed to generate
Batches ==
    { [i \in 1 .. n |-> IF i % 2 = 1 THEN SampleA ELSE SampleB] : n \in 1 .. MaxBatch }
      \cup { << SampleB >> }
Labels == {0, 1}
\* the target labels y: None, or the same label for every sample
TargetsFor(gx) == { None } \cup { [i \in DOMAIN gx |-> c] : c \in Labels }
\* the masks: None, or <<1, 0>> for every sample
MasksFor(gx) == { None, [i \in DOMAIN gx |-> << 1, 0 >>] }
\* the initial examples x_adv_init: None, or one outside the batch's range
InitsFor(gx) ==
    { None, [i \in DOMAIN gx |-> << Unit + Unit \div 5, 0 - Unit \div 5 >>] }

\* line 166 / line 178: generate hands mask=None to _perturb
PerturbMask(gmask) == None

\* lines 108-116 and 119-127, the part of generate every call runs
GenerateEnter(gx, resume) ==
    /\ pc = "idle" /\ constructed /\ calls < MaxCalls
    /\ calls' = calls + 1
    /\ start' = IF resume THEN curr_iter ELSE 0
    /\ clip_min' = BatchMin(gx)
    /\ clip_max' = BatchMax(gx)
    /\ preds' = [i \in DOMAIN gx |-> Predict(estimator, gx[i])]
    /\ x' = gx
    /\ returned' = None
    /\ init_none' = {} /\ attack_run' = {}
    /\ UNCHANGED << cfgVars, curr_iter, initVars, bsVars, atkVars >>

\* lines 132-136 with mask None: mask[i] raises TypeError
GenerateMaskError(gx, gy, gmask, ginit, resume) ==
    /\ GenerateEnter(gx, resume)
    /\ ginit # None /\ gmask = None
    /\ raised' = "TypeError"
    /\ pc' = "idle"
    /\ y' = gy /\ mask' = gmask /\ x_adv_init' = ginit
    /\ x_adv' = None /\ ind' = 0

\* lines 132-139: x_adv_init with the mask applied, as generate rewrites it
MaskedInit(gx, gmask, ginit) ==
    IF ginit = None THEN None
    ELSE [i \in DOMAIN gx |-> ApplyMask(ginit[i], gx[i], gmask[i])]

\* lines 146-147: a targeted attack without y
GenerateMissingTarget(gx, gy, gmask, ginit, resume) ==
    /\ GenerateEnter(gx, resume)
    /\ ~(ginit # None /\ gmask = None)
    /\ targeted /\ gy = None
    /\ raised' = "ValueError"
    /\ pc' = "idle"
    /\ y' = gy /\ mask' = gmask /\ x_adv_init' = MaskedInit(gx, gmask, ginit)
    /\ x_adv' = None /\ ind' = 0

\* lines 150-153: x_adv = x.astype(float), the loop over the samples begins
GenerateStart(gx, gy, gmask, ginit, resume) ==
    /\ GenerateEnter(gx, resume)
    /\ ~(ginit # None /\ gmask = None)
    /\ ~(targeted /\ gy = None)
    /\ raised' = ""
    /\ pc' = "sample"
    /\ y' = gy /\ mask' = gmask /\ x_adv_init' = MaskedInit(gx, gmask, ginit)
    /\ x_adv' = gx /\ ind' = 1

\* ---------------------------------------------- _perturb / _init_sample
\* the arguments generate passes for sample ind
Orig == x_adv[ind]
YP == preds[ind]
YT == IF targeted THEN y[ind] ELSE 0 - 1
AdvInit == IF x_adv_init = None THEN None ELSE x_adv_init[ind]

\* an _init_sample that lacks the y == y_p return of the targeted branch
InitPreludeNoShortcut(est, tg, yt, yp, adv) ==
    IF adv = None THEN "loop"
    ELSE LET t == IF tg THEN RowTruth(est, adv, yt, TRUE)
                  ELSE RowTruth(est, adv, yp, FALSE)
         IN  IF t = "raise" THEN "raise" ELSE IF t = "true" THEN "given" ELSE "loop"

\* _init_sample before its loop (lines 251-258, 286-288): "none" (return
\* None), "raise" (the truth value of a row), "given" (return adv_init) or
\* "loop" (go on to the random draws)
InitPrelude(est, tg, yt, yp, adv) ==
    IF tg /\ yt = yp THEN "none"
    ELSE IF adv = None THEN "loop"
    ELSE LET t == IF tg THEN RowTruth(est, adv, yt, TRUE)
                  ELSE RowTruth(est, adv, yp, FALSE)
         IN  IF t = "raise" THEN "raise" ELSE IF t = "true" THEN "given" ELSE "loop"

\* the label _init_sample returns beside the sample, and _attack's target
InitLabel == IF targeted THEN YT ELSE YP

InLoop == pc = "sample" /\ ind <= Len(x_adv)

\* _perturb returns x: x_adv[ind] keeps its value, the loop moves on
NextSample(returnedNone) ==
    /\ ind' = ind + 1
    /\ pc' = "sample"
    /\ initial_sample' = None /\ n_draw' = 0 /\ random_img' = None /\ n_query' = 0
    /\ n_hit' = 0 /\ hit_img' = None
    /\ init_none' = IF returnedNone THEN init_none \cup {ind} ELSE init_none
    /\ attack_run' = attack_run

\* _attack is entered with the initial sample s
EnterAttack(s) ==
    /\ initial_sample' = << s, InitLabel >>
    /\ current_sample' = s
    /\ target' = InitLabel
    /\ it' = 0
    /\ pc' = "attack"
    /\ attack_run' = attack_run \cup {ind}
    /\ init_none' = init_none

\* targeted and y == y_p: _init_sample returns None at once
SampleTargetIsLabel ==
    /\ InLoop
    /\ InitPrelude(estimator, targeted, YT, YP, AdvInit) = "none"
    /\ curr_iter' = start
    /\ NextSample(TRUE)
    /\ UNCHANGED << cfgVars, calls, raised, returned, genVars, x_adv, bsVars, atkVars >>

\* bool() of the row comparison raises: generate is left by the exception
SampleInitPredRaises ==
    /\ InLoop
    /\ InitPrelude(estimator, targeted, YT, YP, AdvInit) = "raise"
    /\ curr_iter' = start
    /\ raised' = "RuntimeError"
    /\ pc' = "idle"
    /\ UNCHANGED << histVars, cfgVars, calls, returned, genVars, x_adv, ind, initVars,
                    bsVars, atkVars >>

\* adv_init is taken as the initial sample
SampleInitGiven ==
    /\ InLoop
    /\ InitPrelude(estimator, targeted, YT, YP, AdvInit) = "given"
    /\ curr_iter' = start
    /\ EnterAttack(AdvInit)
    /\ UNCHANGED << cfgVars, calls, raised, returned, genVars, x_adv, ind,
                    n_draw, n_hit, hit_img, random_img, n_query, bsVars,
                    delta, num_eval, eval_samples, update, epsilon, potential_sample >>

\* the random search begins
SampleInitLoop ==
    /\ InLoop
    /\ InitPrelude(estimator, targeted, YT, YP, AdvInit) = "loop"
    /\ curr_iter' = start
    /\ pc' = "init_loop"
    /\ initial_sample' = None /\ n_draw' = 0 /\ random_img' = None /\ n_query' = 0
    /\ n_hit' = 0 /\ hit_img' = None
    /\ UNCHANGED << histVars, cfgVars, calls, raised, returned, genVars, x_adv, ind,
                    bsVars, atkVars >>

\* ------------------------------------------------- the random initial search
DrawLevels == 3
\* nprd.uniform(clip_min, clip_max, size=x.shape): the draws tried, all in
\* [clip_min, clip_max)
Draws(cmin, cmax) ==
    { << cmin + ((cmax - cmin) * j) \div DrawLevels,
         cmin + ((cmax - cmin) * (DrawLevels - 1 - j)) \div DrawLevels >> :
      j \in 0 .. DrawLevels - 1 }

\* lines 264-265 / 294-295
MaskedDraw(img, orig, m) == IF m = None THEN img ELSE ApplyMask(img, orig, m)

\* lines 272 / 301: does the draw's class satisfy the attack
DrawHits(tg, cls, yt, yp) == IF tg THEN cls = yt ELSE cls # yp

\* the threshold=0.001 of lines 281 and 310, in ThetaDen fixed point
InitThreshold == << ThetaDen \div 1000 >>

\* _binary_search is entered (lines 423-437)
EnterBS(sample, n, thr, ret) ==
    LET b == BSBounds(n, sample, Orig, thr, theta)
    IN  /\ bs_sample' = sample
        /\ bs_norm' = n
        /\ upper_bound' = b[1]
        /\ lower_bound' = b[2]
        /\ threshold' = b[3]
        /\ bs_ret' = ret
        /\ pc' = "bs"

LeaveBS ==
    /\ bs_sample' = None /\ bs_norm' = "" /\ upper_bound' = 0 /\ lower_bound' = 0
    /\ threshold' = 0 /\ bs_ret' = ""

\* one pass of the for loop whose draw does not satisfy the attack
InitDrawMiss(img) ==
    /\ pc = "init_loop" /\ n_draw < init_size
    /\ LET r == MaskedDraw(img, Orig, PerturbMask(mask))
       IN  /\ ~DrawHits(targeted, Predict(estimator, r), YT, YP)
           /\ random_img' = r
    /\ n_query' = n_query + 1
    /\ n_draw' = n_draw + 1
    /\ UNCHANGED << histVars, cfgVars, curr_iter, calls, raised, returned, pc, genVars, x_adv,
                    ind, initial_sample, n_hit, hit_img, bsVars, atkVars >>

\* one pass whose draw satisfies it: the draw goes to _binary_search
InitDrawHit(img) ==
    /\ pc = "init_loop" /\ n_draw < init_size
    /\ LET r == MaskedDraw(img, Orig, PerturbMask(mask))
       IN  /\ DrawHits(targeted, Predict(estimator, r), YT, YP)
           /\ random_img' = r
           /\ EnterBS(r, "2", InitThreshold, "init")
    /\ n_query' = n_query + 1
    /\ n_hit' = n_hit + 1
    /\ hit_img' = MaskedDraw(img, Orig, PerturbMask(mask))
    /\ target' = InitLabel
    /\ UNCHANGED << histVars, cfgVars, curr_iter, calls, raised, returned, genVars, x_adv, ind,
                    initial_sample, n_draw, current_sample, it, delta, num_eval,
                    eval_samples, update, epsilon, potential_sample >>

\* the for loop is exhausted with no initial sample: _perturb returns x
InitFailed ==
    /\ pc = "init_loop" /\ n_draw >= init_size
    /\ initial_sample = None
    /\ NextSample(TRUE)
    /\ UNCHANGED << cfgVars, curr_iter, calls, raised, returned, genVars, x_adv,
                    bsVars, atkVars >>

\* the for loop is exhausted (targeted) with an initial sample
InitExhausted ==
    /\ pc = "init_loop" /\ n_draw >= init_size
    /\ initial_sample # None
    /\ EnterAttack(initial_sample[1])
    /\ UNCHANGED << cfgVars, curr_iter, calls, raised, returned, genVars, x_adv, ind,
                    n_draw, n_hit, hit_img, random_img, n_query, bsVars,
                    delta, num_eval, eval_samples, update, epsilon, potential_sample >>

\* ------------------------------------------------------- _binary_search
\* one pass of the while loop (lines 440-458)
BSIterate ==
    /\ pc = "bs"
    /\ BSContinue(upper_bound, lower_bound, threshold)
    /\ LET alpha == BSAlpha(upper_bound, lower_bound)
           interpolated_sample == Interpolate(bs_sample, Orig, alpha, bs_norm)
           satisfied == AdversarialSatisfactory(estimator, targeted,
                            interpolated_sample, target, clip_min, clip_max)
           b == BSUpdate(upper_bound, lower_bound, alpha, satisfied)
       IN  /\ upper_bound' = b[1]
           /\ lower_bound' = b[2]
    /\ UNCHANGED << histVars, cfgVars, curr_iter, calls, raised, returned, pc, genVars, x_adv,
                    ind, initVars, bs_sample, bs_norm, threshold, bs_ret, atkVars >>

\* lines 460-467
BSResult == Interpolate(bs_sample, Orig, upper_bound, bs_norm)

\* the loop ends, back in the untargeted _init_sample: break, return, _attack
BSReturnInitBreak ==
    /\ pc = "bs" /\ bs_ret = "init" /\ ~targeted
    /\ ~BSContinue(upper_bound, lower_bound, threshold)
    /\ random_img' = BSResult
    /\ EnterAttack(BSResult)
    /\ LeaveBS
    /\ UNCHANGED << cfgVars, curr_iter, calls, raised, returned, genVars, x_adv, ind,
                    n_draw, n_hit, hit_img, n_query, delta, num_eval, eval_samples, update, epsilon,
                    potential_sample >>

\* a targeted loop that keeps the first projected draw
BSReturnInitKeepFirst ==
    /\ pc = "bs" /\ bs_ret = "init" /\ targeted
    /\ ~BSContinue(upper_bound, lower_bound, threshold)
    /\ random_img' = BSResult
    /\ initial_sample' =
         IF initial_sample = None THEN << BSResult, InitLabel >> ELSE initial_sample
    /\ n_draw' = n_draw + 1
    /\ pc' = "init_loop"
    /\ LeaveBS
    /\ UNCHANGED << histVars, cfgVars, curr_iter, calls, raised, returned, genVars, x_adv, ind,
                    n_query, n_hit, hit_img, atkVars >>

\* the loop ends, back in the targeted _init_sample: the for loop goes on
BSReturnInitContinue ==
    /\ pc = "bs" /\ bs_ret = "init" /\ targeted
    /\ ~BSContinue(upper_bound, lower_bound, threshold)
    /\ random_img' = BSResult
    /\ initial_sample' = << BSResult, InitLabel >>
    /\ n_draw' = n_draw + 1
    /\ pc' = "init_loop"
    /\ LeaveBS
    /\ UNCHANGED << histVars, cfgVars, curr_iter, calls, raised, returned, genVars, x_adv, ind,
                    n_query, n_hit, hit_img, atkVars >>

\* the loop ends, back in _attack (lines 353-363)
BSReturnAttack ==
    /\ pc = "bs" /\ bs_ret = "attack"
    /\ ~BSContinue(upper_bound, lower_bound, threshold)
    /\ current_sample' = BSResult
    /\ num_eval' = NumEval(init_eval, max_eval, curr_iter)
    /\ pc' = "probe"
    /\ LeaveBS
    /\ UNCHANGED << histVars, cfgVars, curr_iter, calls, raised, returned, genVars, x_adv, ind,
                    initVars, target, it, delta, eval_samples, update, epsilon,
                    potential_sample >>

\* --------------------------------------------------------------- _attack
\* the top of a pass of the main loop (lines 343-360): delta, then the
\* binary search with norm=self.norm and no threshold
AttackIterate ==
    /\ pc = "attack" /\ it < max_iter
    /\ delta' = ComputeDelta(curr_iter, norm, theta, current_sample, Orig,
                             clip_min, clip_max)
    /\ EnterBS(current_sample, norm, None, "attack")
    /\ UNCHANGED << histVars, cfgVars, curr_iter, calls, raised, returned, genVars, x_adv, ind,
                    initVars, current_sample, target, it, num_eval, eval_samples,
                    update, epsilon, potential_sample >>

\* _compute_update, lines 521-536: the probes
Probe(noise) ==
    /\ pc = "probe"
    /\ eval_samples' =
         [i \in 1 .. num_eval |->
            EvalSample(current_sample, delta,
                       UnitNoise(noise[i], PerturbMask(mask)), clip_min, clip_max)]
    /\ pc' = "grad"
    /\ UNCHANGED << histVars, cfgVars, curr_iter, calls, raised, returned, genVars, x_adv, ind,
                    initVars, bsVars, current_sample, target, it, delta, num_eval,
                    update, epsilon, potential_sample >>

\* _compute_update, lines 537-564, and lines 376-382 of _attack
Gradient ==
    /\ pc = "grad"
    /\ update' = Direction(estimator, targeted, norm, current_sample, eval_samples,
                           delta, target, clip_min, clip_max)
    /\ epsilon' = Epsilon0(norm, current_sample, Orig, curr_iter)
    /\ eval_samples' = None
    /\ pc' = "step"
    /\ UNCHANGED << histVars, cfgVars, curr_iter, calls, raised, returned, genVars, x_adv, ind,
                    initVars, bsVars, current_sample, target, it, delta, num_eval,
                    potential_sample >>

\* one pass of the while loop (lines 384-392) that ends it, and lines 395-398
StepSuccess ==
    /\ pc = "step"
    /\ LET eps == Halve(epsilon)
           p   == Potential(current_sample, eps, update)
       IN  /\ AdversarialSatisfactory(estimator, targeted, p, target,
                                      clip_min, clip_max)
           /\ potential_sample' = p
           /\ epsilon' = eps
           /\ current_sample' = Clip(p, clip_min, clip_max)
    /\ curr_iter' = curr_iter + 1
    /\ it' = it + 1
    /\ pc' = "attack"
    /\ UNCHANGED << histVars, cfgVars, calls, raised, returned, genVars, x_adv, ind, initVars,
                    bsVars, target, delta, num_eval, eval_samples, update >>

\* one pass of the while loop that does not end it
StepRetry ==
    /\ pc = "step"
    /\ LET eps == Halve(epsilon)
           p   == Potential(current_sample, eps, update)
       IN  /\ ~AdversarialSatisfactory(estimator, targeted, p, target,
                                       clip_min, clip_max)
           /\ potential_sample' = p
           /\ epsilon' = eps
    /\ UNCHANGED << histVars, cfgVars, curr_iter, calls, raised, returned, pc, genVars, x_adv,
                    ind, initVars, bsVars, current_sample, target, it, delta,
                    num_eval, eval_samples, update >>

\* line 400 and lines 158/170: x_adv[ind] = the sample _attack returns
AttackReturn ==
    /\ pc = "attack" /\ it >= max_iter
    /\ x_adv' = [x_adv EXCEPT ![ind] = current_sample]
    /\ NextSample(FALSE)
    /\ current_sample' = None /\ target' = 0 /\ it' = 0 /\ delta' = 0
    /\ num_eval' = 0 /\ eval_samples' = None /\ update' = None /\ epsilon' = 0
    /\ potential_sample' = None
    /\ UNCHANGED << cfgVars, curr_iter, calls, raised, returned, genVars, bsVars >>

\* line 184
GenerateReturn ==
    /\ pc = "sample" /\ ind > Len(x_adv)
    /\ returned' = x_adv
    /\ pc' = "idle"
    /\ UNCHANGED << histVars, cfgVars, curr_iter, calls, raised, genVars, x_adv, ind, initVars,
                    bsVars, atkVars >>

\* ------------------------------------------------------- specifications
\* the arguments of the generate calls tried: y is given to targeted attacks
GenArgs ==
    { a \in [ x : Batches, y : UNION { TargetsFor(gx) : gx \in Batches },
              mask : UNION { MasksFor(gx) : gx \in Batches },
              x_adv_init : UNION { InitsFor(gx) : gx \in Batches },
              resume : BOOLEAN ] :
        /\ a.y \in TargetsFor(a.x)
        /\ a.mask \in MasksFor(a.x)
        /\ a.x_adv_init \in InitsFor(a.x) }

\* every step of a generate call
Search ==
    \/ \E a \in GenArgs : GenerateMaskError(a.x, a.y, a.mask, a.x_adv_init, a.resume)
    \/ \E a \in GenArgs :
         GenerateMissingTarget(a.x, a.y, a.mask, a.x_adv_init, a.resume)
    \/ \E a \in GenArgs :
         /\ (a.y # None => targeted)
         /\ GenerateStart(a.x, a.y, a.mask, a.x_adv_init, a.resume)
    \/ SampleTargetIsLabel
    \/ SampleInitPredRaises
    \/ SampleInitGiven
    \/ SampleInitLoop
    \/ \E img \in Draws(clip_min, clip_max) : InitDrawMiss(img)
    \/ \E img \in Draws(clip_min, clip_max) : InitDrawHit(img)
    \/ InitFailed
    \/ InitExhausted
    \/ BSIterate
    \/ BSReturnInitBreak
    \/ BSReturnInitContinue
    \/ BSReturnAttack
    \/ AttackIterate
    \/ \E noise \in [1 .. num_eval -> RawNoise] : Probe(noise)
    \/ Gradient
    \/ StepSuccess
    \/ StepRetry
    \/ AttackReturn
    \/ GenerateReturn

Next ==
    \/ \E kw \in SearchKwargs : SetParams(kw)
    \/ Search

Spec == Init /\ [][Next]_vars

\* generate calls only, no set_params between them
SpecGenerate == Init /\ [][Search]_vars

NextConfig == \E kw \in AllKwargs : SetParams(kw)

SpecConfig == InitConfig /\ [][NextConfig]_vars

\* ------------------------------------------------------------ properties
\* the adversarial predicate of sample i's output under the oracle
OutputAdversarial(i) ==
    IF targeted THEN Predict(estimator, returned[i]) = y[i]
    ELSE Predict(estimator, returned[i]) # Predict(estimator, x[i])

\* C1: every sample whose initialization succeeded (its _attack ran) is
\* returned by generate with the adversarial predicate satisfied: a class
\* different from the original's when untargeted, the target label when
\* targeted.
C1_OutputAdversarial ==
    returned # None =>
        \A i \in DOMAIN returned : i \in attack_run => OutputAdversarial(i)

WithinClip(s) == \A k \in Idx : clip_min <= s[k] /\ s[k] <= clip_max

\* C2: every sample a stage produces (the initial sample, a binary-search
\* result, current_sample at the end of an iteration, the array generate
\* returns) has every element within [clip_min, clip_max], also when
\* x_adv_init is taken as the initial sample.
C2_WithinClip ==
    /\ initial_sample # None => WithinClip(initial_sample[1])
    /\ (pc \in {"attack", "probe", "grad", "step"}) => WithinClip(current_sample)
    /\ returned # None => \A i \in DOMAIN returned : WithinClip(returned[i])

\* the coordinates of s that the mask of sample ind sets to 0 are the original's
Unperturbed(s) ==
    s # None => \A k \in Idx : mask[ind][k] = 0 => s[k] = x[ind][k]

\* C4: with a mask given, a coordinate whose mask value is 0 equals the
\* original's in the random draw, the binary-search result, every probe,
\* the step candidate and the output.
C4_MaskRespected ==
    /\ (mask # None /\ pc \in {"init_loop", "bs", "attack", "probe", "grad", "step"}) =>
          /\ Unperturbed(random_img)
          /\ (initial_sample # None => Unperturbed(initial_sample[1]))
          /\ Unperturbed(current_sample)
          /\ (eval_samples # None =>
                \A e \in DOMAIN eval_samples : Unperturbed(eval_samples[e]))
          /\ Unperturbed(potential_sample)
    /\ (mask # None /\ returned # None) =>
          \A i \in DOMAIN returned : \A k \in Idx :
              mask[i][k] = 0 => returned[i][k] = x[i][k]

\* the conditions the configuration is rejected for, as listed
ListedInvalid ==
    \/ norm \notin ValidNorms
    \/ max_iter < 0
    \/ max_eval <= 0
    \/ init_eval <= 0
    \/ init_eval > max_eval
    \/ init_size <= 0

\* C5 as stated: construction and set_params raise ValueError exactly when
\* the resulting configuration has norm outside {2, inf}, max_iter < 0,
\* max_eval <= 0, init_eval <= 0, init_eval > max_eval or init_size <= 0.
C5_RaisesIffListed == (raised = "ValueError") <=> ListedInvalid

\* C5, amended: construction and set_params raise ValueError exactly when
\* one of the listed conditions holds or verbose is not a bool.
C5_RaisesIffInvalid ==
    (raised = "ValueError") <=> (ListedInvalid \/ verbose \notin {"True", "False"})

\* a set_params call rejected for verbose alone, and one accepted
C5_Witness ==
    /\ calls = 2
    /\ raised = "ValueError"
    /\ ~ListedInvalid
    /\ verbose = "1"

\* a call of generate with the arguments a
GenerateCall(a) ==
    \/ GenerateMaskError(a.x, a.y, a.mask, a.x_adv_init, a.resume)
    \/ GenerateMissingTarget(a.x, a.y, a.mask, a.x_adv_init, a.resume)
    \/ GenerateStart(a.x, a.y, a.mask, a.x_adv_init, a.resume)

\* C6: generate on a targeted attack with y = None raises the missing-target
\* ValueError before any per-sample search: the call ends at once with that
\* error, curr_iter unchanged, no sample handed to _perturb, nothing returned.
C6_MissingTargetFirst ==
    [][\A a \in GenArgs :
          (targeted /\ a.y = None /\ GenerateCall(a)) =>
              /\ raised' = "ValueError"
              /\ pc' = "idle"
              /\ curr_iter' = curr_iter
              /\ x_adv' = None
              /\ returned' = None]_vars

\* C7: where _attack reads theta (the binary search without a threshold, the
\* delta computation), theta is 0.01/sqrt(numel) for the configured norm 2
\* and 0.01/numel for the configured norm infinity, also after set_params.
C7_ThetaMatchesNorm ==
    (pc = "attack" /\ it < max_iter) => theta = ThetaOf(norm)

\* C8: curr_iter stays within 0 .. max_iter in every state, for any sequence
\* of generate calls on one object, with or without resume.
C8_CounterInRange == curr_iter \in 0 .. max_iter

\* the adversarial predicate _binary_search evaluates, on the sample s
BSAdversarial(s) ==
    AdversarialSatisfactory(estimator, targeted, s, target, clip_min, clip_max)

\* _binary_search runs on a current_sample that is adversarial
BSGiven == pc = "bs" /\ BSAdversarial(bs_sample)

\* the bounds are ordered, and the point at upper_bound is adversarial
C9_Bounds ==
    BSGiven =>
        /\ 0 <= lower_bound /\ lower_bound <= upper_bound
        /\ BSAdversarial(Interpolate(bs_sample, Orig, upper_bound, bs_norm))

\* a pass of the loop moves exactly the bound its outcome names, never
\* outwards, and only while the bounds are further apart than threshold; the
\* search returns, with bounds no further apart than threshold, a point that
\* is adversarial
C9_Step ==
    LET alpha == (upper_bound + lower_bound) \div 2
        hit   == BSAdversarial(Interpolate(bs_sample, Orig, alpha, bs_norm))
    IN  /\ (BSGiven /\ pc' = "bs") =>
              /\ upper_bound - lower_bound > threshold
              /\ hit => (upper_bound' = alpha /\ lower_bound' = lower_bound)
              /\ ~hit => (lower_bound' = alpha /\ upper_bound' = upper_bound)
              /\ lower_bound' >= lower_bound /\ upper_bound' <= upper_bound
        /\ (BSGiven /\ pc' # "bs") =>
              /\ upper_bound - lower_bound <= threshold
              /\ (bs_ret = "attack" => BSAdversarial(current_sample'))
              /\ (bs_ret = "init" => BSAdversarial(random_img'))

\* C9: in _binary_search on an adversarial current_sample, for both norms, an
\* adversarial outcome at alpha only sets upper_bound to alpha and any other
\* outcome only sets lower_bound to alpha; lower_bound never decreases,
\* upper_bound never increases, lower_bound <= upper_bound; the loop ends when
\* upper_bound - lower_bound <= threshold; the returned point, the
\* interpolation at upper_bound, is adversarial.
C9_BinarySearch == []C9_Bounds /\ [][C9_Step]_vars

\* an infinity-norm search of _attack about to return after both of its
\* bounds have moved
C9_Witness ==
    /\ BSGiven /\ bs_norm = "inf" /\ bs_ret = "attack"
    /\ 0 < lower_bound
    /\ upper_bound < LinfDist(Orig, bs_sample) * Frac
    /\ upper_bound - lower_bound <= threshold

\* the upper_bound a binary search ends with, from the bounds ub and lb
RECURSIVE FinalUpper(_, _, _, _)
FinalUpper(ub, lb, thr, img) ==
    IF ~(ub - lb > thr) THEN ub
    ELSE LET alpha == (ub + lb) \div 2
         IN  IF AdversarialSatisfactory(estimator, targeted,
                    Interpolate(img, Orig, alpha, "2"), InitLabel, clip_min, clip_max)
             THEN FinalUpper(alpha, lb, thr, img)
             ELSE FinalUpper(ub, alpha, thr, img)

\* the projection of the draw img: the binary search towards the original
\* with norm 2 and threshold 0.001
ProjectDraw(img) ==
    Interpolate(img, Orig, FinalUpper(Frac, 0, Frac \div 1000, img), "2")

InInitSearch == pc = "init_loop" \/ (pc = "bs" /\ bs_ret = "init")

\* the draws made so far, the one being projected included
DrawsMade == n_draw + (IF pc = "bs" /\ bs_ret = "init" /\ targeted THEN 1 ELSE 0)

C10_State ==
    /\ InInitSearch =>
          /\ DrawsMade <= init_size \/ DrawsMade = 0
          /\ n_query <= init_size \/ n_query = 0
          /\ n_hit <= n_query
    \* untargeted: nothing is drawn once a draw has hit
    /\ (~targeted /\ pc = "init_loop") => (n_hit = 0 /\ initial_sample = None)
    /\ (~targeted /\ InInitSearch) => n_hit <= 1
    \* targeted: the initial sample is the projection of the last draw that hit
    /\ (targeted /\ pc = "init_loop") =>
          initial_sample =
              IF n_hit = 0 THEN None ELSE << ProjectDraw(hit_img), YT >>

C10_Step ==
    \* a draw is projected exactly if its class satisfies the attack
    /\ (pc = "init_loop" /\ pc' = "init_loop") =>
          ~DrawHits(targeted, Predict(estimator, random_img'), YT, YP)
    /\ (pc = "init_loop" /\ pc' = "bs") =>
          /\ DrawHits(targeted, Predict(estimator, random_img'), YT, YP)
          /\ hit_img' = random_img'
    \* untargeted: the projection of the first hit is returned, no draw after it
    /\ (~targeted /\ pc = "bs" /\ bs_ret = "init" /\ pc' # "bs") =>
          /\ pc' = "attack"
          /\ initial_sample' = << ProjectDraw(hit_img), YP >>
          /\ n_hit = 1
          /\ n_query' = n_query /\ n_draw' = n_draw
    \* the search ends without a hit only after init_size draws
    /\ (pc = "init_loop" /\ pc' = "sample") =>
          (n_hit = 0 /\ (n_draw = init_size \/ init_size < 0))
    \* targeted: the search returns only after all init_size draws
    /\ (targeted /\ pc = "init_loop" /\ pc' = "attack") =>
          /\ n_draw = init_size /\ n_query = init_size
          /\ initial_sample' = << ProjectDraw(hit_img), YT >>

\* C10: the random initial search draws at most init_size samples; untargeted,
\* it stops at the first draw whose class differs from the original's and
\* returns that draw's projection, with no further draw or query; targeted,
\* it makes all init_size draws, projects every draw classified as the
\* target and returns the projection of the last of them.
C10_InitialSearch == []C10_State /\ [][C10_Step]_vars

\* a targeted search that returns the projection of its second hit, while
\* another draw classified as the target has a different projection
C10_Witness ==
    /\ targeted /\ pc = "attack" /\ it = 0
    /\ n_hit = 2 /\ n_draw = init_size
    /\ initial_sample = << ProjectDraw(hit_img), YT >>
    /\ \E d \in Draws(clip_min, clip_max) :
          /\ Predict(estimator, d) = YT
          /\ ProjectDraw(d) # ProjectDraw(hit_img)

C3_State ==
    \* a sample whose initialization failed keeps the input's value, and
    \* _attack is not run for it
    /\ \A i \in init_none : x_adv[i] = x[i] /\ i \notin attack_run
    /\ returned # None => \A i \in init_none : returned[i] = x[i]
    \* after the draws, the initialization has failed exactly if none hit
    /\ pc = "init_loop" => (initial_sample = None <=> n_hit = 0)

C3_Step ==
    \* targeted with the target equal to the original's label: failure at
    \* once, nothing drawn, the oracle not queried
    /\ (InLoop /\ targeted /\ YT = YP) =>
          /\ init_none' = init_none \cup {ind}
          /\ pc' = "sample" /\ ind' = ind + 1
          /\ n_draw' = 0 /\ n_query' = 0
    \* no draw among the init_size attempts hit: failure
    /\ (pc = "init_loop" /\ n_draw >= init_size /\ n_hit = 0) =>
          /\ init_none' = init_none \cup {ind}
          /\ pc' = "sample" /\ ind' = ind + 1
    \* and failure is returned in these two cases only
    /\ (pc # "idle" /\ ind \notin init_none /\ ind \in init_none') =>
          \/ InLoop /\ targeted /\ YT = YP
          \/ pc = "init_loop" /\ n_draw >= init_size /\ n_hit = 0

\* C3: when _init_sample returns None for a sample, generate's output at that
\* index equals the input and _attack is not run for it; None is returned
\* when no draw among the init_size attempts satisfies the attack and, when
\* targeted, at once, without a draw or an oracle query, when the target
\* label equals the original's label.
C3_NoOpOnFailure == []C3_State /\ [][C3_Step]_vars

\* a returned batch with one sample whose target is its own label, left as
\* it was, beside a sample that was attacked
C3_Witness ==
    /\ returned # None /\ targeted
    /\ attack_run # {}
    /\ \E i \in init_none : y[i] = preds[i] /\ returned[i] = x[i]

\* min(int(init_eval * sqrt(k + 1)), max_eval) for the outer iteration k
ProbesAt(k) ==
    LET r == CHOOSE n \in 0 .. init_eval * (k + 1) :
                 n * n <= init_eval * init_eval * (k + 1)
                   /\ (n + 1) * (n + 1) > init_eval * init_eval * (k + 1)
    IN  IF r < max_eval THEN r ELSE max_eval

C11_State ==
    (pc \in {"probe", "grad"}) =>
        /\ num_eval = ProbesAt(it)
        /\ init_eval <= num_eval /\ num_eval <= max_eval
        /\ (pc = "grad" => Len(eval_samples) = num_eval)

\* from one outer iteration of a sample's search to the next
C11_Step ==
    (pc = "bs" /\ pc' = "probe" /\ it > 0) => num_eval' >= num_eval

\* C11: in every outer iteration of every sample's search the number of
\* probes is num_eval = min(int(init_eval * sqrt(iteration + 1)), max_eval),
\* iteration being the 0-based index of the outer iteration of that sample's
\* search; so init_eval <= num_eval <= max_eval, and num_eval never decreases
\* from one outer iteration to the next.
C11_NumEval == []C11_State /\ [][C11_Step]_vars

\* the candidate of the step-size loop for the step size eps
StepCandidate(eps) ==
    IF IsNaN(current_sample) \/ IsNaN(update) \/ eps = NaN THEN NaNSample
    ELSE [k \in Idx |-> current_sample[k] + Quot(eps * update[k], UpdDen)]

\* the oracle reports no sample adversarial: one class, untargeted
NoneAdversarial == NumClasses(estimator) = 1 /\ ~targeted

C12_Step ==
    \* the loop starts from 2 * dist / sqrt(iteration + 1), iteration the
    \* counter _attack reads
    /\ (pc = "grad" /\ pc' = "step") =>
          epsilon' = Epsilon0(norm, current_sample, Orig, curr_iter)
    \* every pass halves epsilon, then tests current_sample + epsilon * update
    /\ pc = "step" =>
          /\ epsilon' = (IF epsilon = NaN THEN NaN ELSE Quot(epsilon, 2))
          /\ potential_sample' = StepCandidate(epsilon')
          /\ update' = update
          \* the first candidate that is adversarial ends the loop and,
          \* clipped, is the new current_sample
          /\ BSAdversarial(potential_sample') =>
                /\ pc' = "attack"
                /\ current_sample' = Clip(potential_sample', clip_min, clip_max)
                /\ it' = it + 1 /\ curr_iter' = curr_iter + 1
          \* any other candidate is followed by the next pass, without a cap
          /\ ~BSAdversarial(potential_sample') =>
                /\ pc' = "step"
                /\ current_sample' = current_sample
                /\ it' = it /\ curr_iter' = curr_iter
    \* _attack returns after max_iter outer iterations, each loop ended
    /\ (pc = "attack" /\ pc' = "sample") =>
          (it = max_iter \/ (max_iter < 0 /\ it = 0))
    /\ (pc \in {"bs", "probe", "grad", "step"} /\ bs_ret # "init") =>
          pc' \in {"bs", "probe", "grad", "step", "attack"}

Given(kw, key, old) == IF key \in DOMAIN kw THEN kw[key] ELSE old

C13_Step ==
    pc = "idle" =>
        /\ \A kw \in SearchKwargs :
              SetParams(kw) =>
                  \* every recognised key is stored, whatever the validation says
                  /\ targeted' = Given(kw, "targeted", targeted)
                  /\ norm' = Given(kw, "norm", norm)
                  /\ max_iter' = Given(kw, "max_iter", max_iter)
                  /\ max_eval' = Given(kw, "max_eval", max_eval)
                  /\ init_eval' = Given(kw, "init_eval", init_eval)
                  /\ init_size' = Given(kw, "init_size", init_size)
                  /\ curr_iter' = Given(kw, "curr_iter", curr_iter)
                  /\ batch_size' = Given(kw, "batch_size", batch_size)
                  /\ verbose' = Given(kw, "verbose", verbose)
                  \* any other key is ignored
                  /\ theta' = theta /\ estimator' = estimator
                  \* the error is raised on the stored values
                  /\ (raised' = "ValueError") <=>
                        (ListedInvalid' \/ verbose' \notin {"True", "False"})
        \* generate does not validate: it starts whatever the configuration, and
        \* raises ValueError for a missing target only
        /\ \A a \in GenArgs :
              (x' = a.x /\ y' = a.y /\ mask' = a.mask /\ GenerateCall(a)) =>
                  /\ << targeted, norm, max_iter, max_eval, init_eval, init_size,
                        batch_size, verbose >>' =
                     << targeted, norm, max_iter, max_eval, init_eval, init_size,
                        batch_size, verbose >>
                  /\ (raised' = "ValueError") <=> (targeted /\ a.y = None /\ pc' = "idle"
                                                     /\ ~(a.x_adv_init # None /\ a.mask = None))
                  /\ (raised' = "") <=> pc' = "sample"

\* no configuration error during the search
C13_State == pc # "idle" => raised = ""

====
